---- MODULE Spec2Model ----
(***************************************************************************)
(* Model of bot.py: a single-process relay that forwards every new message *)
(* of a source channel to a target channel with bounded retry, refreshes   *)
(* its configuration from a remote document (manually via /update and on a *)
(* schedule), replaces its own code with rollback (/upgrade) and stops on  *)
(* /stop.  asyncio runs one task at a time: every action below is the code *)
(* one task executes between two suspension points (await).                *)
(***************************************************************************)
EXTENDS Integers, Sequences, FiniteSets, TLC

VARIABLES
    proc,               \* "running" | "crashed" | "restarted" | "stopped"
    config,             \* the parsed config document held in memory
    SOURCE_CHANNEL, TARGET_CHANNEL, LOG_CHANNEL,
    VIDEOS, RETRY_MAX, AUTO_UPDATE_HOURS,
    ADMIN_USER_IDS, CONFIG_RAW_URL, BOT_RAW_URL,
    cfgfs,              \* config.json and config.json.tmp on disk
    botfs,              \* bot.py, bot.py.new and bot.py.bak on disk
    task,               \* one forward_with_retry task per inbound message
    cmd,                \* the handlers of /update, /upgrade and /stop
    sched,              \* the auto_tasks loop
    cycle               \* what the last code-update cycle started from and did

memVars == <<config, SOURCE_CHANNEL, TARGET_CHANNEL, LOG_CHANNEL,
             VIDEOS, RETRY_MAX, AUTO_UPDATE_HOURS>>
bootVars == <<ADMIN_USER_IDS, CONFIG_RAW_URL, BOT_RAW_URL>>
vars == <<proc, config, SOURCE_CHANNEL, TARGET_CHANNEL, LOG_CHANNEL,
          VIDEOS, RETRY_MAX, AUTO_UPDATE_HOURS,
          ADMIN_USER_IDS, CONFIG_RAW_URL, BOT_RAW_URL,
          cfgfs, botfs, task, cmd, sched, cycle>>

----------------------------------------------------------------------------
(* Bounds of the model.                                                    *)

\* inbound messages of the source channel
MaxMsgs == 2
\* of these, the messages forwarded while /update changes the configuration
MaxRetryMsgs == 1
\* iterations of the auto_tasks loop that are followed
MaxCycles == 2
\* invocations of the admin commands that are followed, all commands together
MaxCalls == 2

Msgs == 1..MaxMsgs

----------------------------------------------------------------------------
(* Values.                                                                 *)

\* Python's None, among integer values
Null == -1

\* the three files of the code artifact and the two of the config document
CONFIG_FILE == "config.json"
CONFIG_TMP == "config.json.tmp"
BOT_FILE == "bot.py"
BOT_TMP == "bot.py.new"
BOT_BAK == "bot.py.bak"

\* the keys of the config document that the update paths read, in the order
\* json.dumps(..., sort_keys=True) puts them
SortedKeys == <<"auto_update_hours", "log_channel", "max_retry",
                "source_channel", "target_channel", "youtube_links">>

Rank(k) == CHOOSE i \in 1..Len(SortedKeys) : SortedKeys[i] = k

----------------------------------------------------------------------------
(* JSON.  A text is the sequence of key/value members it spells, or is not *)
(* JSON at all; a parsed value is a dict (insertion-ordered, one entry per *)
(* key) or a list.                                                         *)

Text(syntax, items) == [syntax |-> syntax, items |-> items]

KeysOf(items) == {items[i][1] : i \in DOMAIN items}

\* the last value a member sequence gives a key (a later duplicate wins)
LastValue(items, k) ==
    LET i == CHOOSE j \in DOMAIN items :
                 /\ items[j][1] = k
                 /\ \A l \in DOMAIN items : items[l][1] = k => l <= j
    IN items[i][2]

RECURSIVE DictItems(_, _)
\* dict construction: a key keeps the place of its first member and the value
\* of its last
DictItems(items, seen) ==
    IF items = <<>> THEN <<>>
    ELSE IF Head(items)[1] \in seen THEN DictItems(Tail(items), seen)
    ELSE <<Head(items)>> \o DictItems(Tail(items), seen \cup {Head(items)[1]})

JsonValid(text) == text.syntax # "invalid"

\* json.loads: defined on valid texts only
JsonLoads(text) ==
    [kind |-> text.syntax,
     items |-> LET d == DictItems(text.items, {})
               IN [i \in DOMAIN d |-> <<d[i][1], LastValue(text.items, d[i][1])>>]]

\* json.dump(value, f, ensure_ascii=False, indent=4): members in dict order
JsonDump(value) == Text(value.kind, value.items)

RECURSIVE InsertSorted(_, _)
InsertSorted(pair, sorted) ==
    IF sorted = <<>> THEN <<pair>>
    ELSE IF Rank(pair[1]) <= Rank(Head(sorted)[1]) THEN <<pair>> \o sorted
    ELSE <<Head(sorted)>> \o InsertSorted(pair, Tail(sorted))

RECURSIVE SortItems(_)
SortItems(items) ==
    IF items = <<>> THEN <<>>
    ELSE InsertSorted(Head(items), SortItems(Tail(items)))

\* json.dumps(value, sort_keys=True)
JsonDumpsSorted(value) ==
    Text(value.kind, IF value.kind = "object" THEN SortItems(value.items)
                                               ELSE value.items)

IsDict(value) == value.kind = "object"

HasKey(value, k) == k \in KeysOf(value.items)

\* dict.get(k, default), on a dict
Get(value, k, default) ==
    IF HasKey(value, k) THEN LastValue(value.items, k) ELSE default

----------------------------------------------------------------------------
(* Files.                                                                  *)

Absent == [st |-> "absent", text |-> Text("invalid", <<>>)]
FullFile(text) == [st |-> "full", text |-> text]
\* what a write cut short leaves: a proper prefix of the text, which is not JSON
Truncated(text, n) == [st |-> "partial", text |-> Text("invalid", SubSeq(text.items, 1, n))]

\* f.read() followed by json.loads: the parsed value, or an error
Readable(file) == file.st = "full" /\ JsonValid(file.text)

----------------------------------------------------------------------------
(* The documents of the model: config.json as it is at startup, and what   *)
(* the remote config URL may serve.                                        *)

LocalText ==
    Text("object", << <<"source_channel", 100>>, <<"target_channel", 200>>,
                      <<"log_channel", 300>>, <<"max_retry", 3>>,
                      <<"auto_update_hours", 3>> >>)

\* the local document with its members in another order
SameText ==
    Text("object", << <<"max_retry", 3>>, <<"auto_update_hours", 3>>,
                      <<"log_channel", 300>>, <<"target_channel", 200>>,
                      <<"source_channel", 100>> >>)

\* another target and retry ceiling (max_retry is spelled twice: the last wins)
RetargetText ==
    Text("object", << <<"source_channel", 100>>, <<"max_retry", 3>>,
                      <<"target_channel", 201>>, <<"log_channel", 300>>,
                      <<"max_retry", 2>>, <<"auto_update_hours", 3>> >>)

\* only the refresh interval differs
HoursText ==
    Text("object", << <<"source_channel", 100>>, <<"target_channel", 200>>,
                      <<"log_channel", 300>>, <<"max_retry", 3>>,
                      <<"auto_update_hours", 1>> >>)

\* a document that names one field only
PartialText == Text("object", << <<"max_retry", 1>> >>)

\* valid JSON that is no key/value document
ListText == Text("array", <<>>)

\* not JSON
BrokenText == Text("invalid", << <<"source_channel", 100>> >>)

\* a document that spells target_channel as null
NullTargetText ==
    Text("object", << <<"source_channel", 100>>, <<"target_channel", Null>>,
                      <<"log_channel", 300>> >>)

\* a document that spells auto_update_hours as null
NullHoursText == Text("object", << <<"auto_update_hours", Null>> >>)

RemoteTexts == {SameText, RetargetText, HoursText, PartialText, ListText, BrokenText}

\* what fetch_text can end in: the body of a 200 response, or an exception
FetchFailed == Text("invalid", <<>>)
FetchResults == [ok : {TRUE}, text : RemoteTexts] \cup {[ok |-> FALSE, text |-> FetchFailed]}

\* code artifacts a bot_raw_url may serve, by length in characters; 0 is the
\* artifact the process was started from
Artifact(id, len) == [id |-> id, len |-> len]
RunningCode == Artifact(0, 300)
\* the artifact an earlier upgrade replaced
OlderCode == Artifact(5, 250)
RemoteCode == {Artifact(1, 0), Artifact(2, 19), Artifact(3, 20), Artifact(4, 300)}
CodeFetchResults == [ok : {TRUE}, code : RemoteCode] \cup {[ok |-> FALSE, code |-> Artifact(1, 0)]}

\* senders of commands: 1 is the configured admin, 2 is somebody else, Null is a
\* sender without an id
Senders == {1, 2, Null}

\* the startup configurations followed: the admin list, the two raw URLs, and
\* whether an earlier upgrade left a backup of the code behind
Boots == { [admins |-> {1}, config_url |-> TRUE,  bot_url |-> TRUE,  stale_bak |-> TRUE],
           [admins |-> {},  config_url |-> TRUE,  bot_url |-> TRUE,  stale_bak |-> FALSE],
           [admins |-> {1}, config_url |-> FALSE, bot_url |-> FALSE, stale_bak |-> FALSE] }

----------------------------------------------------------------------------
(* Startup (module level of bot.py).                                       *)

\* config.get(key, default) at startup and in the update paths
Field(doc, key, default) == Get(doc, key, default)

IdleTask == [pc |-> "none", attempt |-> 0, limit |-> 0, target |-> Null,
             outcomes |-> <<>>, sleeps |-> <<>>, sent |-> <<>>,
             fwdTo |-> <<>>, permFail |-> <<>>, order |-> 0, lost |-> 0]

IdleCmd == [pc |-> "idle", sender |-> Null, replies |-> <<>>, logs |-> <<>>,
            calls |-> 0]

NoFile == [st |-> "absent", id |-> 0, len |-> 0]
CodeFile(code) == [st |-> "full", id |-> code.id, len |-> code.len]

Init ==
    /\ proc = "running"
    /\ config = JsonLoads(LocalText)
    /\ SOURCE_CHANNEL = Field(JsonLoads(LocalText), "source_channel", Null)
    /\ TARGET_CHANNEL = Field(JsonLoads(LocalText), "target_channel", Null)
    /\ LOG_CHANNEL = Field(JsonLoads(LocalText), "log_channel", Null)
    /\ VIDEOS = Field(JsonLoads(LocalText), "youtube_links", 0)
    /\ RETRY_MAX = Field(JsonLoads(LocalText), "max_retry", 3)
    /\ AUTO_UPDATE_HOURS = Field(JsonLoads(LocalText), "auto_update_hours", 3)
    /\ \E b \in Boots :
          /\ ADMIN_USER_IDS = b.admins
          /\ CONFIG_RAW_URL = b.config_url
          /\ BOT_RAW_URL = b.bot_url
          /\ botfs = [p \in {BOT_FILE, BOT_TMP, BOT_BAK} |->
                         IF p = BOT_FILE THEN CodeFile(RunningCode)
                         ELSE IF p = BOT_BAK /\ b.stale_bak THEN CodeFile(OlderCode)
                         ELSE NoFile]
    /\ cfgfs = [p \in {CONFIG_FILE, CONFIG_TMP} |->
                   IF p = CONFIG_FILE THEN FullFile(LocalText) ELSE Absent]
    /\ task = [m \in Msgs |-> IdleTask]
    /\ cmd = [c \in {"update", "upgrade", "stop"} |-> IdleCmd]
    /\ sched = [pc |-> "sleeping", cycles |-> 0, sleepFor |-> AUTO_UPDATE_HOURS * 3600,
                text |-> FetchFailed, outcome |-> "none", logs |-> <<>>]
    /\ cycle = [n |-> 0, result |-> "none", code |-> RunningCode,
                before |-> botfs, atFailure |-> botfs]

----------------------------------------------------------------------------
(* forward_with_retry and on_new_source_message.                           *)

\* what client.forward_messages can end in; a FloodWaitError carries seconds
FloodSeconds == {5}
ForwardResults ==
    {[kind |-> "ok", seconds |-> 0], [kind |-> "error", seconds |-> 0]}
    \cup [kind : {"flood"}, seconds : FloodSeconds]

BackoffFromOne(attempt) == 2 ^ (attempt - 1)

\* asyncio.sleep(2 ** attempt)
Backoff(attempt) == 2 ^ attempt

FloodDelayExact(seconds) == seconds

\* asyncio.sleep(e.seconds + 1)
FloodDelay(seconds) == seconds + 1

\* the delay a failed attempt is followed by
SleepAfter(outcome, attempt) ==
    IF outcome.kind = "flood" THEN FloodDelay(outcome.seconds) ELSE Backoff(attempt)

RangeHasNextOffByOne(attempt, limit) == attempt <= limit

\* for attempt in range(1, RETRY_MAX + 1): is there an attempt after this one
RangeHasNext(attempt, limit) == attempt < limit

AfterLogNoReturn(pc) ==
    CASE pc = "log_sent" -> "sleeping"
      [] pc = "log_retry" -> "sleeping"
      [] pc = "log_final" -> "PermanentlyFailed"

\* where forward_with_retry goes once combined_log returns: `return` after the
\* success line, the sleep after a failure line, the end after the final line
AfterLog(pc) ==
    CASE pc = "log_sent" -> "Delivered"
      [] pc = "log_retry" -> "sleeping"
      [] pc = "log_final" -> "PermanentlyFailed"

\* the next loop iteration calls client.forward_messages(TARGET_CHANNEL, msg);
\* with the range exhausted the permanent-failure line is logged
NextIteration(t) ==
    IF RangeHasNext(t.attempt, t.limit)
    THEN [t EXCEPT !.pc = "forwarding", !.attempt = @ + 1, !.target = TARGET_CHANNEL]
    ELSE [t EXCEPT !.pc = "log_final", !.permFail = Append(@, RETRY_MAX)]

on_new_source_message_awaits(m) ==
    /\ proc = "running"
    /\ task[m].pc = "none"
    /\ \A n \in Msgs : n < m => task[n].pc \in {"Delivered", "PermanentlyFailed"}
    /\ task' = [task EXCEPT ![m].pc = "spawned"]
    /\ UNCHANGED <<proc, memVars, bootVars, cfgfs, botfs, cmd, sched, cycle>>

\* asyncio.create_task(forward_with_retry(event)): the handler returns at once
on_new_source_message(m) ==
    /\ proc = "running"
    /\ task[m].pc = "none"
    /\ \A n \in Msgs : n < m => task[n].pc # "none"
    /\ task' = [task EXCEPT ![m].pc = "spawned"]
    /\ UNCHANGED <<proc, memVars, bootVars, cfgfs, botfs, cmd, sched, cycle>>

\* the task's first step: range(1, RETRY_MAX + 1) is evaluated once
ForwardStart(m) ==
    /\ proc = "running"
    /\ task[m].pc = "spawned"
    /\ task' = [task EXCEPT ![m] = NextIteration([@ EXCEPT !.limit = RETRY_MAX])]
    /\ UNCHANGED <<proc, memVars, bootVars, cfgfs, botfs, cmd, sched, cycle>>

\* the messages the target channel has received so far
Forwarded == {n \in Msgs : task[n].fwdTo # <<>>}

\* client.forward_messages returns or raises; the log line is built and logged
\* locally, and its copy to the log channel is awaited.  `order` is the place
\* of the message among those the target received
ForwardReturn(m, r) ==
    /\ proc = "running"
    /\ task[m].pc = "forwarding"
    /\ task' = [task EXCEPT ![m] =
          IF r.kind = "ok"
          THEN [@ EXCEPT !.pc = "log_sent",
                         !.outcomes = Append(@, r),
                         !.fwdTo = Append(@, task[m].target),
                         !.order = Cardinality(Forwarded) + 1,
                         !.sent = Append(@, <<SOURCE_CHANNEL, TARGET_CHANNEL>>)]
          ELSE [@ EXCEPT !.pc = "log_retry",
                         !.outcomes = Append(@, r)]]
    /\ UNCHANGED <<proc, memVars, bootVars, cfgfs, botfs, cmd, sched, cycle>>

LogRaisesWhenLost(copied) == ~copied

\* does combined_log raise: send_log_to_channel catches every Exception of
\* client.send_message (lines 76-79) and combined_log catches once more
\* (lines 87-90), whether or not the copy got through
LogRaises(copied) == FALSE

\* combined_log is over, the copy to the log channel delivered or not (`lost`
\* counts the lines whose copy failed).  Had it raised: after the success line
\* the except of line 111 would log a failed attempt and sleep; in a handler
\* or after the loop the exception would end the task
LogReturn(m, copied) ==
    /\ proc = "running"
    /\ task[m].pc \in {"log_sent", "log_retry", "log_final"}
    /\ task' = [task EXCEPT ![m] =
          LET t == [task[m] EXCEPT !.lost = @ + (IF copied THEN 0 ELSE 1)]
              to == AfterLog(t.pc)
          IN IF LogRaises(copied)
             THEN [t EXCEPT !.pc = IF t.pc = "log_sent" THEN "log_retry" ELSE "Raised"]
             ELSE IF to = "sleeping"
             THEN [t EXCEPT !.pc = to,
                            !.sleeps = Append(@, SleepAfter(t.outcomes[Len(t.outcomes)], t.attempt))]
             ELSE [t EXCEPT !.pc = to]]
    /\ UNCHANGED <<proc, memVars, bootVars, cfgfs, botfs, cmd, sched, cycle>>

\* asyncio.sleep returns
Wake(m) ==
    /\ proc = "running"
    /\ task[m].pc = "sleeping"
    /\ task' = [task EXCEPT ![m] = NextIteration(@)]
    /\ UNCHANGED <<proc, memVars, bootVars, cfgfs, botfs, cmd, sched, cycle>>

Forward ==
    \E m \in Msgs :
        \/ on_new_source_message(m)
        \/ ForwardStart(m)
        \/ \E r \in ForwardResults : ForwardReturn(m, r)
        \/ \E copied \in BOOLEAN : LogReturn(m, copied)
        \/ Wake(m)

----------------------------------------------------------------------------
(* Replacing config.json and applying a document (cmd_update, auto_tasks). *)

ReplaceStepsInPlace(fs, new_cfg) ==
    LET text == JsonDump(new_cfg)
    IN << [fs EXCEPT ![CONFIG_FILE] = Truncated(text, 0)],
          [fs EXCEPT ![CONFIG_FILE] = Truncated(text, Len(text.items) \div 2)],
          [fs EXCEPT ![CONFIG_FILE] = FullFile(text)],
          [fs EXCEPT ![CONFIG_FILE] = FullFile(text)] >>

\* the states of the two files that open(CONFIG_FILE + ".tmp", "w"),
\* json.dump and os.replace go through, in order: the temporary file is
\* truncated, is written in part, is complete, and is renamed over config.json
ReplaceSteps(fs, new_cfg) ==
    LET text == JsonDump(new_cfg)
    IN << [fs EXCEPT ![CONFIG_TMP] = Truncated(text, 0)],
          [fs EXCEPT ![CONFIG_TMP] = Truncated(text, Len(text.items) \div 2)],
          [fs EXCEPT ![CONFIG_TMP] = FullFile(text)],
          [fs EXCEPT ![CONFIG_FILE] = FullFile(text), ![CONFIG_TMP] = Absent] >>

Last(seq) == seq[Len(seq)]

\* lines 191-197: config = new_cfg, then the six named fields, each keeping its
\* value when the document does not name it; on a list, config.get raises
\* after config was assigned
ApplyManual(new_cfg) ==
    /\ config' = new_cfg
    /\ IF IsDict(new_cfg)
       THEN /\ SOURCE_CHANNEL' = Field(new_cfg, "source_channel", SOURCE_CHANNEL)
            /\ TARGET_CHANNEL' = Field(new_cfg, "target_channel", TARGET_CHANNEL)
            /\ LOG_CHANNEL' = Field(new_cfg, "log_channel", LOG_CHANNEL)
            /\ VIDEOS' = Field(new_cfg, "youtube_links", VIDEOS)
            /\ RETRY_MAX' = Field(new_cfg, "max_retry", RETRY_MAX)
            /\ AUTO_UPDATE_HOURS' = Field(new_cfg, "auto_update_hours", AUTO_UPDATE_HOURS)
       ELSE UNCHANGED <<SOURCE_CHANNEL, TARGET_CHANNEL, LOG_CHANNEL, VIDEOS,
                        RETRY_MAX, AUTO_UPDATE_HOURS>>

\* lines 273-278: as above, without AUTO_UPDATE_HOURS
ApplyScheduled(new_cfg) ==
    /\ config' = new_cfg
    /\ UNCHANGED AUTO_UPDATE_HOURS
    /\ IF IsDict(new_cfg)
       THEN /\ SOURCE_CHANNEL' = Field(new_cfg, "source_channel", SOURCE_CHANNEL)
            /\ TARGET_CHANNEL' = Field(new_cfg, "target_channel", TARGET_CHANNEL)
            /\ LOG_CHANNEL' = Field(new_cfg, "log_channel", LOG_CHANNEL)
            /\ VIDEOS' = Field(new_cfg, "youtube_links", VIDEOS)
            /\ RETRY_MAX' = Field(new_cfg, "max_retry", RETRY_MAX)
       ELSE UNCHANGED <<SOURCE_CHANNEL, TARGET_CHANNEL, LOG_CHANNEL, VIDEOS, RETRY_MAX>>

----------------------------------------------------------------------------
(* The admin gate and the arrival of a command.                            *)

NotAuthorizedUnlessAnonymous(sender_id) ==
    ADMIN_USER_IDS # {} /\ sender_id # Null /\ sender_id \notin ADMIN_USER_IDS

\* if ADMIN_USER_IDS and sender_id not in ADMIN_USER_IDS
NotAuthorized(sender_id) == ADMIN_USER_IDS # {} /\ sender_id \notin ADMIN_USER_IDS

\* a command message arrives; the handler awaits event.get_sender().  One
\* invocation of each command is followed at a time.
Arrive(c, sender_id) ==
    /\ proc = "running"
    /\ cmd[c].pc = "idle"
    /\ cmd["update"].calls + cmd["upgrade"].calls + cmd["stop"].calls < MaxCalls
    /\ cmd' = [cmd EXCEPT ![c] = [pc |-> "get_sender", sender |-> sender_id,
                                  replies |-> <<>>, logs |-> <<>>,
                                  calls |-> cmd[c].calls + 1]]
    /\ UNCHANGED <<proc, memVars, bootVars, cfgfs, botfs, task, sched, cycle>>

Reply(c, what) == [cmd[c] EXCEPT !.replies = Append(@, what)]

----------------------------------------------------------------------------
(* cmd_update.                                                             *)

\* lines 172-180: the gate, the URL check, the progress reply; fetch_text starts
cmd_update_check ==
    /\ proc = "running"
    /\ cmd["update"].pc = "get_sender"
    /\ cmd' = [cmd EXCEPT !["update"] =
          IF NotAuthorized(cmd["update"].sender)
          THEN [Reply("update", "not_authorized") EXCEPT !.pc = "idle"]
          ELSE IF ~CONFIG_RAW_URL
          THEN [Reply("update", "no_config_url") EXCEPT !.pc = "idle"]
          ELSE [Reply("update", "fetching") EXCEPT !.pc = "fetching"]]
    /\ UNCHANGED <<proc, memVars, bootVars, cfgfs, botfs, task, sched, cycle>>

\* the exception that lines 182-197 end in on what fetch_text produced, if any:
\* fetch_text raises, json.loads raises, or config.get raises on a value that
\* is no dict
UpdateError(r) ==
    IF ~r.ok THEN "fetch"
    ELSE IF ~JsonValid(r.text) THEN "parse"
    ELSE IF ~IsDict(JsonLoads(r.text)) THEN "apply"
    ELSE "none"

\* line 201: the reply carries the text of the exception
FailedReply(e) ==
    CASE e = "fetch" -> "update_failed_fetch"
      [] e = "parse" -> "update_failed_parse"
      [] e = "apply" -> "update_failed_apply"

UpdateWritesUnparsed(r) == r.ok

\* the handler reaches the write of lines 186-188: fetch_text returned a text
\* and json.loads accepted it
UpdateWrites(r) == r.ok /\ JsonValid(r.text)

\* lines 182-201, from the return of fetch_text to the await of the log copy
cmd_update_fetched(r) ==
    /\ proc = "running"
    /\ cmd["update"].pc = "fetching"
    /\ IF UpdateWrites(r)
       THEN LET new_cfg == JsonLoads(r.text)
            IN /\ cfgfs' = Last(ReplaceSteps(cfgfs, new_cfg))
               /\ ApplyManual(new_cfg)
               /\ cmd' = [cmd EXCEPT !["update"] =
                     IF IsDict(new_cfg)
                     THEN [Reply("update", "updated") EXCEPT
                              !.pc = "logging", !.logs = Append(@, "config_updated")]
                     ELSE [Reply("update", FailedReply(UpdateError(r))) EXCEPT !.pc = "idle"]]
       ELSE /\ cmd' = [cmd EXCEPT !["update"] =
                     [Reply("update", FailedReply(UpdateError(r))) EXCEPT !.pc = "idle"]]
            /\ UNCHANGED <<memVars, cfgfs>>
    /\ UNCHANGED <<proc, bootVars, botfs, task, sched, cycle>>

\* the process dies inside lines 186-188, after step i of the replace
cmd_update_crash(r, i) ==
    /\ proc = "running"
    /\ cmd["update"].pc = "fetching"
    /\ UpdateWrites(r)
    /\ cfgfs' = ReplaceSteps(cfgfs, JsonLoads(r.text))[i]
    /\ proc' = "crashed"
    /\ UNCHANGED <<memVars, bootVars, botfs, task, cmd, sched, cycle>>

\* combined_log of line 199 returns
cmd_update_logged ==
    /\ proc = "running"
    /\ cmd["update"].pc = "logging"
    /\ cmd' = [cmd EXCEPT !["update"].pc = "idle"]
    /\ UNCHANGED <<proc, memVars, bootVars, cfgfs, botfs, task, sched, cycle>>

Update ==
    \/ \E s \in Senders : Arrive("update", s)
    \/ cmd_update_check
    \/ \E r \in FetchResults : cmd_update_fetched(r)
    \/ cmd_update_logged

UpdateCrash ==
    /\ cmd["update"].pc = "fetching"
    /\ \E r \in FetchResults :
          \E i \in DOMAIN ReplaceSteps(cfgfs, JsonLoads(r.text)) : cmd_update_crash(r, i)

----------------------------------------------------------------------------
(* auto_tasks.                                                             *)

\* line 267: the two documents, serialised with sorted keys, differ
Differs(new_cfg, file) ==
    JsonDumpsSorted(new_cfg) # JsonDumpsSorted(JsonLoads(file.text))

\* the cooldown of line 293, in seconds
CooldownSeconds == 60

SleepAgainBreaks(s, hours) == [s EXCEPT !.pc = "ended", !.cycles = @ + 1]

\* the loop goes back to line 259: asyncio.sleep(AUTO_UPDATE_HOURS * 3600).
\* None * 3600 raises TypeError, which the except of line 291 catches: the
\* line of 292 is logged
SleepAgain(s, hours) ==
    IF hours = Null
    THEN [s EXCEPT !.pc = "logging_outer", !.cycles = @ + 1,
                   !.logs = Append(@, "outer_exception")]
    ELSE [s EXCEPT !.pc = "sleeping", !.sleepFor = hours * 3600, !.cycles = @ + 1]

\* asyncio.sleep returns; with a config URL fetch_text starts
auto_tasks_wake ==
    /\ proc = "running"
    /\ sched.pc = "sleeping"
    /\ sched.cycles < MaxCycles
    /\ sched' = IF CONFIG_RAW_URL
                THEN [sched EXCEPT !.pc = "fetching", !.logs = <<>>, !.outcome = "none"]
                ELSE SleepAgain([sched EXCEPT !.logs = <<>>, !.outcome = "no_url"],
                                AUTO_UPDATE_HOURS)
    /\ UNCHANGED <<proc, memVars, bootVars, cfgfs, botfs, task, cmd, cycle>>

\* the refresh reaches the write of lines 268-270: the fetched text is JSON,
\* config.json can be read and parsed, and the two differ
ScheduledWrites(r) ==
    /\ r.ok /\ JsonValid(r.text)
    /\ Readable(cfgfs[CONFIG_FILE])
    /\ Differs(JsonLoads(r.text), cfgfs[CONFIG_FILE])

\* lines 262-281, from the return of fetch_text to the next await
auto_tasks_fetched(r) ==
    /\ proc = "running"
    /\ sched.pc = "fetching"
    /\ IF ScheduledWrites(r)
       THEN LET new_cfg == JsonLoads(r.text)
            IN /\ cfgfs' = Last(ReplaceSteps(cfgfs, new_cfg))
               /\ ApplyScheduled(new_cfg)
               /\ sched' = IF IsDict(new_cfg)
                           THEN [sched EXCEPT !.pc = "logging", !.text = r.text,
                                              !.outcome = "applied",
                                              !.logs = Append(@, "auto_applied")]
                           ELSE [sched EXCEPT !.pc = "logging", !.text = r.text,
                                              !.outcome = "failed",
                                              !.logs = Append(@, "auto_config_failed")]
       ELSE /\ UNCHANGED <<memVars, cfgfs>>
            /\ sched' = IF r.ok /\ JsonValid(r.text) /\ Readable(cfgfs[CONFIG_FILE])
                        THEN SleepAgain([sched EXCEPT !.text = r.text, !.outcome = "same"],
                                        AUTO_UPDATE_HOURS)
                        ELSE [sched EXCEPT !.pc = "logging", !.text = r.text,
                                           !.outcome = "failed",
                                           !.logs = Append(@, "auto_config_failed")]
    /\ UNCHANGED <<proc, bootVars, botfs, task, cmd, cycle>>

\* the process dies inside lines 268-270, after step i of the replace
auto_tasks_crash(r, i) ==
    /\ proc = "running"
    /\ sched.pc = "fetching"
    /\ ScheduledWrites(r)
    /\ cfgfs' = ReplaceSteps(cfgfs, JsonLoads(r.text))[i]
    /\ proc' = "crashed"
    /\ UNCHANGED <<memVars, bootVars, botfs, task, cmd, sched, cycle>>

\* combined_log of line 279 or 281 returns; the loop sleeps again
auto_tasks_logged ==
    /\ proc = "running"
    /\ sched.pc = "logging"
    /\ sched' = SleepAgain(sched, AUTO_UPDATE_HOURS)
    /\ UNCHANGED <<proc, memVars, bootVars, cfgfs, botfs, task, cmd, cycle>>

\* an OSError inside lines 268-270, before the temporary file is opened
\* (i = 0) or after step i of the replace: the except of line 280 catches it,
\* nothing is assigned, and the failure line is logged
auto_tasks_write_failed(r, i) ==
    /\ proc = "running"
    /\ sched.pc = "fetching"
    /\ ScheduledWrites(r)
    /\ cfgfs' = IF i = 0 THEN cfgfs ELSE ReplaceSteps(cfgfs, JsonLoads(r.text))[i]
    /\ sched' = [sched EXCEPT !.pc = "logging", !.text = r.text,
                              !.outcome = "write_failed",
                              !.logs = Append(@, "auto_config_failed")]
    /\ UNCHANGED <<proc, memVars, bootVars, botfs, task, cmd, cycle>>

\* combined_log of line 292 returns: asyncio.sleep(60)
auto_tasks_outer_logged ==
    /\ proc = "running"
    /\ sched.pc = "logging_outer"
    /\ sched' = [sched EXCEPT !.pc = "cooldown", !.sleepFor = CooldownSeconds]
    /\ UNCHANGED <<proc, memVars, bootVars, cfgfs, botfs, task, cmd, cycle>>

\* asyncio.sleep(60) returns: the loop goes back to line 259
auto_tasks_cooled ==
    /\ proc = "running"
    /\ sched.pc = "cooldown"
    /\ sched.cycles < MaxCycles
    /\ sched' = SleepAgain(sched, AUTO_UPDATE_HOURS)
    /\ UNCHANGED <<proc, memVars, bootVars, cfgfs, botfs, task, cmd, cycle>>

\* the task is cancelled while it is suspended: CancelledError, which no
\* `except Exception` catches, is raised at the await.  Inside the try of
\* line 258 it reaches line 289 and the loop breaks; inside the handler of
\* line 291 it ends the task
auto_tasks_cancel ==
    /\ proc = "running"
    /\ sched.pc \in {"sleeping", "fetching", "logging", "logging_outer", "cooldown"}
    /\ sched' = [sched EXCEPT !.pc = "ended",
                              !.outcome = IF sched.pc \in {"logging_outer", "cooldown"}
                                          THEN "cancelled_in_handler" ELSE "cancelled"]
    /\ UNCHANGED <<proc, memVars, bootVars, cfgfs, botfs, task, cmd, cycle>>

\* the steps of auto_tasks outside an ordinary refresh
SchedulerFaults ==
    \/ \E r \in FetchResults, i \in 0..3 : auto_tasks_write_failed(r, i)
    \/ auto_tasks_outer_logged
    \/ auto_tasks_cooled
    \/ auto_tasks_cancel

Scheduler ==
    \/ auto_tasks_wake
    \/ \E r \in FetchResults : auto_tasks_fetched(r)
    \/ auto_tasks_logged

SchedulerCrash ==
    /\ sched.pc = "fetching"
    /\ \E r \in FetchResults :
          \E i \in DOMAIN ReplaceSteps(cfgfs, JsonLoads(r.text)) : auto_tasks_crash(r, i)

----------------------------------------------------------------------------
(* safe_upgrade_from_raw and cmd_upgrade.                                  *)

\* the smallest artifact accepted, in characters
MinArtifactLen == 20

Exists(file) == file.st # "absent"

\* the file operations of safe_upgrade_from_raw that the environment can fail
FileOps == {"write", "remove", "backup", "install", "rollback"}

TooSmallOffByOne(code) == code.len = 0 \/ code.len < MinArtifactLen - 1

\* if not text or len(text) < 20
TooSmall(code) == code.len = 0 \/ code.len < MinArtifactLen

NeedsRollbackNever(fs) == FALSE

\* if os.path.exists(BOT_BAK) and not os.path.exists(BOT_FILE)
NeedsRollback(fs) == Exists(fs[BOT_BAK]) /\ ~Exists(fs[BOT_FILE])

\* os.replace(src, dst), which needs src to exist
Renamed(fs, src, dst) == [fs EXCEPT ![dst] = fs[src], ![src] = NoFile]

\* lines 223-227: the rotation failed in state fs; roll back if that applies
RotationFailed(fs, failing) ==
    IF NeedsRollback(fs)
    THEN IF "rollback" \in failing
         THEN [fs |-> fs, result |-> "rollback_error", atFailure |-> fs]
         ELSE [fs |-> Renamed(fs, BOT_BAK, BOT_FILE), result |-> "replace_error",
               atFailure |-> fs]
    ELSE [fs |-> fs, result |-> "replace_error", atFailure |-> fs]

\* lines 212-228 on a fetched artifact, with the operations in `failing`
\* raising OSError when they are reached: the files afterwards, the way the
\* function ends, and the files at the point the rotation failed
SafeUpgrade(fs, code, failing) ==
    IF TooSmall(code)
    THEN [fs |-> fs, result |-> "invalid", atFailure |-> fs]
    ELSE IF "write" \in failing
    THEN [fs |-> [fs EXCEPT ![BOT_TMP] = [st |-> "partial", id |-> code.id, len |-> 0]],
          result |-> "write_error", atFailure |-> fs]
    ELSE LET written == [fs EXCEPT ![BOT_TMP] = CodeFile(code)]
             removed == [written EXCEPT ![BOT_BAK] = NoFile]
             backed == Renamed(removed, BOT_FILE, BOT_BAK)
             installed == Renamed(backed, BOT_TMP, BOT_FILE)
         IN IF Exists(written[BOT_BAK]) /\ "remove" \in failing
            THEN RotationFailed(written, failing)
            ELSE IF ~Exists(removed[BOT_FILE]) \/ "backup" \in failing
            THEN RotationFailed(removed, failing)
            ELSE IF "install" \in failing
            THEN RotationFailed(backed, failing)
            ELSE [fs |-> installed, result |-> "ok", atFailure |-> fs]

\* lines 233-243: the gate, the URL check, the progress reply and the request
\* log line; safe_upgrade_from_raw starts and awaits fetch_text
cmd_upgrade_check ==
    /\ proc = "running"
    /\ cmd["upgrade"].pc = "get_sender"
    /\ cmd' = [cmd EXCEPT !["upgrade"] =
          IF NotAuthorized(cmd["upgrade"].sender)
          THEN [Reply("upgrade", "not_authorized") EXCEPT !.pc = "idle"]
          ELSE IF ~BOT_RAW_URL
          THEN [Reply("upgrade", "no_bot_url") EXCEPT !.pc = "idle"]
          ELSE [Reply("upgrade", "fetching") EXCEPT
                   !.pc = "fetching", !.logs = Append(@, "upgrade_requested")]]
    /\ UNCHANGED <<proc, memVars, bootVars, cfgfs, botfs, task, sched, cycle>>

\* fetch_text returns in safe_upgrade_from_raw; lines 210-228, then the await
\* of the reply of line 245 or, on an exception, lines 250-252 up to the await
\* of the log copy
cmd_upgrade_fetched(r, failing) ==
    /\ proc = "running"
    /\ cmd["upgrade"].pc = "fetching"
    /\ LET done == IF r.ok THEN SafeUpgrade(botfs, r.code, failing)
                   ELSE [fs |-> botfs, result |-> "download_failed", atFailure |-> botfs]
       IN /\ botfs' = done.fs
          /\ cycle' = [n |-> cycle.n + 1, result |-> done.result, code |-> r.code,
                       before |-> botfs, atFailure |-> done.atFailure]
          /\ cmd' = [cmd EXCEPT !["upgrade"] =
                IF done.result = "ok"
                THEN [cmd["upgrade"] EXCEPT !.pc = "replying"]
                ELSE [Reply("upgrade", "upgrade_failed") EXCEPT
                         !.pc = "logging", !.logs = Append(@, "upgrade_failed")]]
    /\ UNCHANGED <<proc, memVars, bootVars, cfgfs, task, sched>>

\* event.reply of line 245 returns, and the restart line is logged; or it
\* raises (the platform refuses or times out the send), which the except of
\* line 250 catches: the failure is replied and logged, and the handler never
\* reaches os.execv
cmd_upgrade_replied(sent) ==
    /\ proc = "running"
    /\ cmd["upgrade"].pc = "replying"
    /\ cmd' = [cmd EXCEPT !["upgrade"] =
          IF sent
          THEN [Reply("upgrade", "upgraded") EXCEPT
                   !.pc = "restarting", !.logs = Append(@, "restarting")]
          ELSE [Reply("upgrade", "upgrade_failed") EXCEPT
                   !.pc = "logging", !.logs = Append(@, "upgrade_failed")]]
    /\ UNCHANGED <<proc, memVars, bootVars, cfgfs, botfs, task, sched, cycle>>

\* combined_log of line 246 returns: os.execv replaces the process image
cmd_upgrade_restart ==
    /\ proc = "running"
    /\ cmd["upgrade"].pc = "restarting"
    /\ proc' = "restarted"
    /\ cmd' = [cmd EXCEPT !["upgrade"].pc = "idle"]
    /\ UNCHANGED <<memVars, bootVars, cfgfs, botfs, task, sched, cycle>>

\* combined_log of line 252 returns
cmd_upgrade_logged ==
    /\ proc = "running"
    /\ cmd["upgrade"].pc = "logging"
    /\ cmd' = [cmd EXCEPT !["upgrade"].pc = "idle"]
    /\ UNCHANGED <<proc, memVars, bootVars, cfgfs, botfs, task, sched, cycle>>

Upgrade ==
    \/ \E s \in Senders : Arrive("upgrade", s)
    \/ cmd_upgrade_check
    \/ \E r \in CodeFetchResults, failing \in SUBSET FileOps : cmd_upgrade_fetched(r, failing)
    \/ \E sent \in BOOLEAN : cmd_upgrade_replied(sent)
    \/ cmd_upgrade_restart
    \/ cmd_upgrade_logged

----------------------------------------------------------------------------
(* cmd_stop.                                                               *)

\* lines 298-305: the gate, the reply and the log line; client.disconnect()
\* is awaited
cmd_stop_check ==
    /\ proc = "running"
    /\ cmd["stop"].pc = "get_sender"
    /\ cmd' = [cmd EXCEPT !["stop"] =
          IF NotAuthorized(cmd["stop"].sender)
          THEN [Reply("stop", "not_authorized") EXCEPT !.pc = "idle"]
          ELSE [Reply("stop", "shutting_down") EXCEPT
                   !.pc = "stopping", !.logs = Append(@, "shutdown_requested")]]
    /\ UNCHANGED <<proc, memVars, bootVars, cfgfs, botfs, task, sched, cycle>>

\* line 307: asyncio.get_event_loop().stop()
cmd_stop_done ==
    /\ proc = "running"
    /\ cmd["stop"].pc = "stopping"
    /\ proc' = "stopped"
    /\ cmd' = [cmd EXCEPT !["stop"].pc = "idle"]
    /\ UNCHANGED <<memVars, bootVars, cfgfs, botfs, task, sched, cycle>>

Stop ==
    \/ \E s \in Senders : Arrive("stop", s)
    \/ cmd_stop_check
    \/ cmd_stop_done

----------------------------------------------------------------------------
(* Specifications.                                                         *)

Next == Forward \/ Update \/ UpdateCrash \/ Scheduler \/ SchedulerCrash
           \/ SchedulerFaults \/ Upgrade \/ Stop

\* the whole program
Spec == Init /\ [][Next]_vars

\* the forwarding pipeline while an admin's /update replaces the target and
\* the retry ceiling under it
RetryFetchResults == {r \in FetchResults : r.ok /\ r.text \in {RetargetText, PartialText}}

NextRetry ==
    \/ \E m \in 1..MaxRetryMsgs :
          \/ on_new_source_message(m)
          \/ ForwardStart(m)
          \/ \E r \in ForwardResults : ForwardReturn(m, r)
          \/ LogReturn(m, TRUE)
          \/ Wake(m)
    \/ Arrive("update", 1)
    \/ cmd_update_check
    \/ \E r \in RetryFetchResults : cmd_update_fetched(r)
    \/ cmd_update_logged

InitRetry == Init /\ CONFIG_RAW_URL /\ ADMIN_USER_IDS # {}

SpecRetry == InitRetry /\ [][NextRetry]_vars

\* the config document: /update, the scheduled refresh, and a crash in either
NextConfig == Update \/ UpdateCrash \/ Scheduler \/ SchedulerCrash

SpecConfig == Init /\ [][NextConfig]_vars

\* the code artifact: /upgrade
NextUpgrade == Upgrade

SpecUpgrade == Init /\ [][NextUpgrade]_vars

\* /upgrade with every step of the handler taken once it can be: each await
\* of the handler returns or raises in the end
SpecUpgradeFair ==
    /\ Init /\ [][NextUpgrade]_vars
    /\ WF_vars(cmd_upgrade_check)
    /\ WF_vars(\E r \in CodeFetchResults, failing \in SUBSET FileOps :
                  cmd_upgrade_fetched(r, failing))
    /\ WF_vars(\E sent \in BOOLEAN : cmd_upgrade_replied(sent))
    /\ WF_vars(cmd_upgrade_restart)
    /\ WF_vars(cmd_upgrade_logged)

\* the three admin commands, from every sender
NextAdmin == Update \/ Upgrade \/ Stop

SpecAdmin == Init /\ [][NextAdmin]_vars

\* /update by the admin and the scheduled refresh, on every document that is
\* JSON
ValidFetchResults ==
    [ok : {TRUE}, text : {t \in RemoteTexts : JsonValid(t)} \cup {NullTargetText}]

NextValid ==
    \/ Arrive("update", 1)
    \/ cmd_update_check
    \/ \E r \in ValidFetchResults : cmd_update_fetched(r)
    \/ cmd_update_logged
    \/ auto_tasks_wake
    \/ \E r \in ValidFetchResults : auto_tasks_fetched(r)
    \/ auto_tasks_logged

SpecValid == InitRetry /\ [][NextValid]_vars

\* the scheduler loop under every failure of a refresh, a cancellation, and
\* an /update that leaves it no interval to sleep for
SchedFetchResults ==
    {r \in FetchResults : ~r.ok \/ r.text \in {BrokenText, ListText, RetargetText}}

NextSched ==
    \/ Arrive("update", 1)
    \/ cmd_update_check
    \/ cmd_update_fetched([ok |-> TRUE, text |-> NullHoursText])
    \/ cmd_update_logged
    \/ auto_tasks_wake
    \/ \E r \in SchedFetchResults : auto_tasks_fetched(r)
    \/ auto_tasks_logged
    \/ \E r \in SchedFetchResults, i \in 0..3 : auto_tasks_write_failed(r, i)
    \/ auto_tasks_outer_logged
    \/ auto_tasks_cooled
    \/ auto_tasks_cancel

\* every await of auto_tasks returns or raises in the end
SpecSched ==
    /\ InitRetry /\ [][NextSched]_vars
    /\ WF_vars(\E r \in SchedFetchResults : auto_tasks_fetched(r))
    /\ WF_vars(auto_tasks_logged)
    /\ WF_vars(auto_tasks_outer_logged)

\* a burst of inbound messages, with the configuration left alone
NextBurst ==
    \E m \in Msgs :
        \/ on_new_source_message(m)
        \/ ForwardStart(m)
        \/ \E r \in ForwardResults : ForwardReturn(m, r)
        \/ LogReturn(m, TRUE)
        \/ Wake(m)

SpecBurst == InitRetry /\ [][NextBurst]_vars

\* the forwarding pipeline with a log channel that may refuse any line
NextLog ==
    \E m \in 1..MaxRetryMsgs :
        \/ on_new_source_message(m)
        \/ ForwardStart(m)
        \/ \E r \in ForwardResults : ForwardReturn(m, r)
        \/ \E copied \in BOOLEAN : LogReturn(m, copied)
        \/ Wake(m)

SpecLog == InitRetry /\ [][NextLog]_vars

----------------------------------------------------------------------------
(* Properties of forward_with_retry, under SpecRetry.                      *)

RECURSIVE TwoToThe(_)
TwoToThe(k) == IF k = 0 THEN 1 ELSE 2 * TwoToThe(k - 1)

Kinds(t) == [k \in DOMAIN t.outcomes |-> t.outcomes[k].kind]
Succeeded(t) == \E k \in DOMAIN t.outcomes : t.outcomes[k].kind = "ok"
Started(t) == t.pc \notin {"none", "spawned"}

\* C1: a message whose delivery attempt succeeded has exactly one success log
\* entry and no permanent-failure entry, and its task makes no delivery
\* attempt after the successful one: the successful attempt is its last, and
\* the task is logging the success or has returned.
C1_DeliveredOnce ==
    \A m \in Msgs :
        Succeeded(task[m]) =>
            /\ Len(task[m].sent) = 1
            /\ Len(task[m].fwdTo) = 1
            /\ task[m].permFail = <<>>
            /\ task[m].outcomes[Len(task[m].outcomes)].kind = "ok"
            /\ \A k \in DOMAIN task[m].outcomes :
                   k < Len(task[m].outcomes) => task[m].outcomes[k].kind # "ok"
            /\ task[m].attempt = Len(task[m].outcomes)
            /\ task[m].pc \in {"log_sent", "Delivered"}

\* two generic failures, then the third attempt delivers and the task returns
C1_Witness ==
    \E m \in Msgs :
        /\ task[m].pc = "Delivered"
        /\ Kinds(task[m]) = <<"error", "error", "ok">>
        /\ Len(task[m].sent) = 1

\* C2: a message whose every attempt failed (generic error or rate limit) was
\* attempted exactly max_retry times -- the ceiling read when its task
\* started, which is RETRY_MAX as long as no /update has run -- and its
\* permanent-failure entry is logged once, after the last attempt; before
\* that there is no such entry and the attempts stay within the ceiling.
C2_FailsAfterMaxRetry ==
    \A m \in Msgs :
        /\ Started(task[m]) => Len(task[m].outcomes) <= task[m].limit
        /\ (Started(task[m]) /\ cmd["update"].calls = 0) => task[m].limit = RETRY_MAX
        /\ task[m].pc \in {"log_final", "PermanentlyFailed"} <=> Len(task[m].permFail) = 1
        /\ Len(task[m].permFail) <= 1
        /\ Len(task[m].permFail) = 1 =>
              /\ Len(task[m].outcomes) = task[m].limit
              /\ ~Succeeded(task[m])
        /\ (task[m].pc \in {"Delivered", "PermanentlyFailed"} /\ ~Succeeded(task[m])) =>
              /\ Len(task[m].outcomes) = task[m].limit
              /\ Len(task[m].permFail) = 1

\* three attempts, of both failure kinds, and the task has ended
C2_Witness ==
    \E m \in Msgs :
        /\ task[m].pc = "PermanentlyFailed"
        /\ task[m].limit = 3
        /\ Kinds(task[m]) = <<"error", "flood", "error">>
        /\ Len(task[m].permFail) = 1

\* C3: the sleep that follows attempt k, when that attempt failed with a
\* generic error, is 2^k seconds, so 2^(k-1) seconds lie between attempt k-1
\* and attempt k; with a ceiling of 3, two generic failures and a success the
\* sleeps are exactly 2 s and 4 s.
C3_ExponentialBackoff ==
    \A m \in Msgs :
        /\ \A k \in DOMAIN task[m].sleeps :
               task[m].outcomes[k].kind = "error" => task[m].sleeps[k] = TwoToThe(k)
        /\ \A k \in DOMAIN task[m].outcomes :
               (task[m].outcomes[k].kind = "error" /\ k < Len(task[m].outcomes))
                   => k \in DOMAIN task[m].sleeps
        /\ (task[m].limit = 3 /\ Kinds(task[m]) = <<"error", "error", "ok">>)
               => task[m].sleeps = <<2, 4>>

C3_Witness ==
    \E m \in Msgs :
        /\ task[m].pc = "Delivered"
        /\ task[m].limit = 3
        /\ Kinds(task[m]) = <<"error", "error", "ok">>
        /\ task[m].sleeps = <<2, 4>>

\* C4: the sleep that follows an attempt answered by a rate-limit signal of s
\* seconds is s + 1 seconds, and that attempt is one of the max_retry
\* attempts: the attempt number counts every call made, rate-limited or not,
\* and never passes the ceiling.
C4_FloodWait ==
    \A m \in Msgs :
        /\ \A k \in DOMAIN task[m].sleeps :
               task[m].outcomes[k].kind = "flood"
                   => task[m].sleeps[k] = task[m].outcomes[k].seconds + 1
        /\ \A k \in DOMAIN task[m].outcomes :
               (task[m].outcomes[k].kind = "flood" /\ task[m].pc # "log_retry")
                   => k \in DOMAIN task[m].sleeps
        /\ Started(task[m]) =>
               /\ task[m].attempt <= task[m].limit
               /\ task[m].attempt = Len(task[m].outcomes)
                                      + (IF task[m].pc = "forwarding" THEN 1 ELSE 0)

\* every attempt was rate-limited: three waits of 6 s, then permanent failure
C4_Witness ==
    \E m \in Msgs :
        /\ task[m].pc = "PermanentlyFailed"
        /\ Kinds(task[m]) = <<"flood", "flood", "flood">>
        /\ task[m].sleeps = <<6, 6, 6>>

----------------------------------------------------------------------------
(* Properties of the config document, under SpecConfig.                    *)

\* two JSON texts spell the same document whatever the order of their keys
SameDocument(a, b) ==
    /\ a.syntax = b.syntax
    /\ KeysOf(a.items) = KeysOf(b.items)
    /\ \A k \in KeysOf(a.items) : LastValue(a.items, k) = LastValue(b.items, k)

\* C5: config.json is at all times a complete, parseable document, and every
\* step -- a crash of the process between the start of the temporary write
\* and the end of the rename included, on the /update path and on the
\* scheduled path -- leaves in it either the document it held before or,
\* whole, a document the remote served.
C5_AtomicReplace ==
    /\ [](cfgfs[CONFIG_FILE].st = "full" /\ JsonValid(cfgfs[CONFIG_FILE].text))
    /\ [][\/ cfgfs'[CONFIG_FILE] = cfgfs[CONFIG_FILE]
          \/ \E t \in RemoteTexts :
                /\ JsonValid(t)
                /\ cfgfs'[CONFIG_FILE].st = "full"
                /\ SameDocument(cfgfs'[CONFIG_FILE].text, t)]_vars

\* the process died with the temporary file cut short and config.json as it was
C5_Witness ==
    /\ proc = "crashed"
    /\ cfgfs[CONFIG_TMP].st = "partial"
    /\ cfgfs[CONFIG_FILE] = FullFile(LocalText)

\* the step in which the scheduled refresh handles what fetch_text returned
RefreshStep == sched.pc = "fetching" /\ sched'.pc # "fetching" /\ proc' = "running"

\* every field the update paths keep in memory has the value the document
\* gives it, when the document names it
FieldsApplied(doc) ==
    /\ HasKey(doc, "source_channel") => SOURCE_CHANNEL' = LastValue(doc.items, "source_channel")
    /\ HasKey(doc, "target_channel") => TARGET_CHANNEL' = LastValue(doc.items, "target_channel")
    /\ HasKey(doc, "log_channel") => LOG_CHANNEL' = LastValue(doc.items, "log_channel")
    /\ HasKey(doc, "youtube_links") => VIDEOS' = LastValue(doc.items, "youtube_links")
    /\ HasKey(doc, "max_retry") => RETRY_MAX' = LastValue(doc.items, "max_retry")
    /\ HasKey(doc, "auto_update_hours")
          => AUTO_UPDATE_HOURS' = LastValue(doc.items, "auto_update_hours")

\* C6: a scheduled refresh whose fetched document is, key order aside, the
\* document on disk writes nothing and changes nothing in memory; one whose
\* document differs writes it to config.json and applies it to the fields kept
\* in memory.
C6_ScheduledRefresh ==
    [][(RefreshStep /\ JsonValid(sched'.text) /\ Readable(cfgfs[CONFIG_FILE])) =>
          IF SameDocument(sched'.text, cfgfs[CONFIG_FILE].text)
          THEN cfgfs' = cfgfs /\ UNCHANGED memVars
          ELSE /\ cfgfs'[CONFIG_FILE].st = "full"
               /\ SameDocument(cfgfs'[CONFIG_FILE].text, sched'.text)
               /\ SameDocument(JsonDump(config'), sched'.text)
               /\ FieldsApplied(config')]_vars

\* a refresh applied a document whose refresh interval differs from the one
\* the scheduler goes on sleeping for
C6_Witness ==
    /\ sched.outcome = "applied"
    /\ HasKey(config, "auto_update_hours")
    /\ AUTO_UPDATE_HOURS # LastValue(config.items, "auto_update_hours")

----------------------------------------------------------------------------
(* Properties of the code artifact, under SpecUpgrade.                     *)

\* C7: an upgrade whose fetched artifact has fewer than 20 characters ends in
\* the invalid-artifact error, and bot.py, bot.py.bak and bot.py.new are what
\* they were before it.
C7_SmallArtifactRejected ==
    (cycle.n > 0 /\ cycle.result # "download_failed" /\ cycle.code.len < 20) =>
        /\ cycle.result = "invalid"
        /\ botfs = cycle.before

\* a 19-character artifact was rejected with a stale backup lying around
C7_Witness ==
    /\ cycle.result = "invalid"
    /\ cycle.code.len = 19
    /\ botfs[BOT_FILE] = CodeFile(RunningCode)
    /\ botfs[BOT_BAK] = CodeFile(OlderCode)

\* C8: when the rotation failed with a backup present and no current
\* artifact, and the replace error is what the caller gets, the backup has been
\* renamed back to bot.py: bot.py is the backup of that moment, which is the
\* artifact the cycle started from whenever it started from one.
C8_RollbackRestores ==
    (/\ cycle.n > 0
     /\ cycle.result = "replace_error"
     /\ Exists(cycle.atFailure[BOT_BAK])
     /\ ~Exists(cycle.atFailure[BOT_FILE])) =>
        /\ botfs[BOT_FILE] = cycle.atFailure[BOT_BAK]
        /\ ~Exists(botfs[BOT_BAK])
        /\ Exists(cycle.before[BOT_FILE]) => botfs[BOT_FILE] = cycle.before[BOT_FILE]

\* the install rename failed after the backup rename, and bot.py is back
C8_Witness ==
    /\ cycle.result = "replace_error"
    /\ cycle.atFailure[BOT_BAK] = CodeFile(RunningCode)
    /\ ~Exists(cycle.atFailure[BOT_FILE])
    /\ botfs[BOT_FILE] = CodeFile(RunningCode)

ValidCode(file) == file.st = "full" /\ file.len >= 20

\* C9: after any code-update cycle there is a valid current code file or a
\* usable backup.
C9_NeverWithoutCode ==
    cycle.n > 0 => (ValidCode(botfs[BOT_FILE]) \/ ValidCode(botfs[BOT_BAK]))

\* C9, in full: after any cycle the current file is valid and a backup is
\* present, or the file the cycle started from is in place.
C9_CurrentOrOriginal ==
    cycle.n > 0 =>
        \/ ValidCode(botfs[BOT_FILE]) /\ Exists(botfs[BOT_BAK])
        \/ Exists(botfs[BOT_FILE]) /\ botfs[BOT_FILE] = cycle.before[BOT_FILE]

----------------------------------------------------------------------------
(* The admin gate, under SpecAdmin.                                        *)

Commands == {"update", "upgrade", "stop"}

Rejected(c) == ADMIN_USER_IDS # {} /\ cmd[c].sender \notin ADMIN_USER_IDS

\* C10: with a non-empty admin list, the handler of /update, /upgrade or /stop
\* called by somebody not in the list replies "not authorized" and returns:
\* it never gets to fetch, log, restart or stop, and its step changes neither
\* the files, nor the configuration in memory, nor the process, nor any other
\* task.
C10_GateRejects ==
    /\ [](\A c \in Commands : (cmd[c].pc \notin {"idle", "get_sender"}) => ~Rejected(c))
    /\ [][\A c \in Commands :
             (cmd[c].pc = "get_sender" /\ cmd'[c] # cmd[c] /\ Rejected(c)) =>
                 /\ cmd'[c].pc = "idle"
                 /\ cmd'[c].replies = <<"not_authorized">>
                 /\ cmd'[c].logs = <<>>
                 /\ \A d \in Commands \ {c} : cmd'[d] = cmd[d]
                 /\ UNCHANGED <<proc, memVars, bootVars, cfgfs, botfs, task, sched, cycle>>]_vars

\* /stop from a stranger and /upgrade from a sender without an id have both
\* been turned away, and the process runs on as it was started
C10_Witness ==
    /\ ADMIN_USER_IDS # {}
    /\ proc = "running"
    /\ cmd["stop"].pc = "idle" /\ cmd["stop"].sender = 2
    /\ cmd["stop"].replies = <<"not_authorized">>
    /\ cmd["upgrade"].pc = "idle" /\ cmd["upgrade"].sender = Null
    /\ cmd["upgrade"].replies = <<"not_authorized">>
    /\ cycle.n = 0

----------------------------------------------------------------------------
(* Properties of /update and of the scheduled refresh, under SpecConfig.   *)

\* the step in which cmd_update handles what fetch_text produced
UpdateStep == cmd["update"].pc = "fetching" /\ cmd'["update"].pc # "fetching"
                 /\ proc' = "running"

\* C11: an /update whose fetch fails, or whose fetched text is not JSON,
\* replies with the failure message and returns, and the step leaves
\* config.json, config.json.tmp and every config field in memory as they were.
C11_FailedUpdateChangesNothing ==
    [][UpdateStep =>
          /\ Last(cmd'["update"].replies) \in {"update_failed_fetch", "update_failed_parse"}
                => /\ cmd'["update"].pc = "idle"
                   /\ cmd'["update"].logs = cmd["update"].logs
                   /\ UNCHANGED <<cfgfs, memVars>>]_vars

\* an /update got text that is not JSON after an earlier /update had
\* retargeted the relay: the failure is replied and the earlier document stays
C11_Witness ==
    /\ cmd["update"].pc = "idle"
    /\ cmd["update"].calls = 2
    /\ cmd["update"].replies = <<"fetching", "update_failed_parse">>
    /\ cfgfs[CONFIG_FILE] = FullFile(JsonDump(JsonLoads(RetargetText)))
    /\ TARGET_CHANNEL = 201

\* C12: whatever JSON documents /update and the scheduled refresh were
\* served, the configuration in memory is a key/value document and the
\* source, target and log channel identifiers are not null.
C12_ReadersSeeValidated ==
    /\ IsDict(config)
    /\ SOURCE_CHANNEL # Null
    /\ TARGET_CHANNEL # Null
    /\ LOG_CHANNEL # Null

\* C12, the identifiers alone
C12_ChannelsNotNull ==
    SOURCE_CHANNEL # Null /\ TARGET_CHANNEL # Null /\ LOG_CHANNEL # Null

\* /update reported success and the relay has no target
C12_Witness ==
    /\ cmd["update"].replies = <<"fetching", "updated">>
    /\ IsDict(config)
    /\ TARGET_CHANNEL = Null

----------------------------------------------------------------------------
(* The restart after an upgrade, under SpecUpgradeFair.                    *)

\* the last code-update cycle replaced bot.py and the process runs on
RunsReplacedCode == cycle.n > 0 /\ cycle.result = "ok" /\ proc = "running"

\* C13: once safe_upgrade_from_raw has replaced the code file, the process
\* goes on running only while the handler is on its way to os.execv, and the
\* restart follows.
C13_UpgradeRestarts ==
    /\ [](RunsReplacedCode => cmd["upgrade"].pc \in {"replying", "restarting"})
    /\ (RunsReplacedCode ~> proc = "restarted")

\* bot.py holds the new artifact, the handler has returned with the failure
\* reply, and the process runs the code it was started from
C13_Witness ==
    /\ RunsReplacedCode
    /\ botfs[BOT_FILE] = CodeFile(cycle.code)
    /\ cmd["upgrade"].pc = "idle"
    /\ cmd["upgrade"].replies = <<"fetching", "upgrade_failed">>

----------------------------------------------------------------------------
(* The scheduler loop, under SpecSched.                                    *)

\* auto_tasks is at an await of its loop
LoopRuns == sched.pc \in {"sleeping", "fetching", "logging", "logging_outer", "cooldown"}

\* the refresh of this iteration raised: fetch, parse or apply failure, or a
\* failure of the write
RefreshFailed == sched.outcome \in {"failed", "write_failed"}

\* C14: auto_tasks ends only by cancellation; a refresh that raises -- on the
\* fetch, the parse, the write or the apply -- is followed by its log line and
\* then by the loop's next sleep (the cooldown of the outer handler when the
\* interval cannot be slept for), unless the task is cancelled first; a
\* cancelled task leaves config.json whole.
C14_LoopSurvivesErrors ==
    /\ [](LoopRuns \/ (sched.pc = "ended"
                         /\ sched.outcome \in {"cancelled", "cancelled_in_handler"}
                         /\ cfgfs[CONFIG_FILE].st = "full"
                         /\ JsonValid(cfgfs[CONFIG_FILE].text)))
    /\ [][(sched.pc = "fetching" /\ sched'.pc # "fetching" /\ sched'.pc # "ended"
             /\ sched'.outcome \in {"failed", "write_failed"})
            => (sched'.pc = "logging"
                /\ sched'.logs = Append(sched.logs, "auto_config_failed"))]_vars
    /\ ((sched.pc = "logging" /\ RefreshFailed)
           ~> (sched.pc \in {"sleeping", "cooldown", "ended"}))

\* the second iteration is asleep after a first whose write failed half-way
C14_Witness ==
    /\ sched.pc = "sleeping"
    /\ sched.cycles = 1
    /\ sched.outcome = "write_failed"
    /\ sched.logs = <<"auto_config_failed">>
    /\ cfgfs[CONFIG_TMP].st = "partial"
    /\ cfgfs[CONFIG_FILE] = FullFile(LocalText)

----------------------------------------------------------------------------
(* More properties of forward_with_retry, under SpecRetry.                 *)

\* the attempts up to attempt k that ended in a generic error
GenericFailures(t, k) == Cardinality({j \in 1..k : t.outcomes[j].kind = "error"})

\* C15: the sleep that follows a generic error is 2^g seconds, g being the
\* number of attempts so far that ended in a generic error: rate-limited
\* attempts do not make it longer, and the first generic error is followed by
\* 2 seconds even when it comes after a rate-limit signal.
C15_FloodNotInBackoff ==
    \A m \in Msgs :
        \A k \in DOMAIN task[m].sleeps :
            task[m].outcomes[k].kind = "error"
                => task[m].sleeps[k] = TwoToThe(GenericFailures(task[m], k))

\* a rate-limit signal, then the first generic error, which is followed by 4 s
C15_Witness ==
    \E m \in Msgs :
        /\ Len(task[m].sleeps) = 2
        /\ task[m].outcomes[1].kind = "flood"
        /\ task[m].outcomes[2].kind = "error"
        /\ task[m].sleeps[2] = 4

----------------------------------------------------------------------------
(* The tasks of a burst, under SpecBurst.                                  *)

Delivery == [kind |-> "ok", seconds |-> 0]

\* C16: the handler of a new message only spawns the task and can run
\* whatever the tasks of earlier messages are doing; a step of one task
\* changes no other task; and a task can attempt and complete its delivery
\* whatever the others are doing -- so a later message can be delivered while
\* an earlier one waits out a backoff or a rate limit, and reach the target
\* first.
C16_TasksInterleave ==
    /\ [](\A m \in Msgs :
             /\ (task[m].pc = "none" /\ \A n \in Msgs : n < m => task[n].pc # "none")
                   => ENABLED on_new_source_message(m)
             /\ task[m].pc = "spawned" => ENABLED ForwardStart(m)
             /\ task[m].pc = "forwarding" => ENABLED ForwardReturn(m, Delivery))
    /\ [][\A m \in Msgs :
             task'[m] # task[m] =>
                 /\ \A n \in Msgs \ {m} : task'[n] = task[n]
                 /\ task[m].pc = "none" => task'[m] = [task[m] EXCEPT !.pc = "spawned"]]_vars

\* the second message reached the target first, while the first waited out
\* a backoff; the first followed it
C16_Witness ==
    /\ task[1].pc = "Delivered" /\ task[2].pc = "Delivered"
    /\ task[2].order = 1 /\ task[1].order = 2
    /\ task[1].outcomes[1].kind = "error"
    /\ task[1].sleeps = <<2>>

\* the second message is delivered while the first is in a rate-limit wait
C16_WhileSuspended ==
    /\ task[1].pc = "sleeping" /\ task[1].sleeps = <<6>>
    /\ task[2].pc = "Delivered"

----------------------------------------------------------------------------
(* The log channel, under SpecLog.                                         *)

\* C17: whether or not the copy of a log line reaches the log channel, the
\* task goes on as it does after a delivered copy -- nothing is raised into
\* forward_with_retry.  After the success line the task returns: the attempt
\* count and the outcomes stay, and the message is never forwarded again.
C17_LogFailureContained ==
    /\ [](\A m \in Msgs :
             /\ task[m].pc # "Raised"
             /\ Len(task[m].fwdTo) <= 1
             /\ task[m].pc = "Delivered" =>
                   (Len(task[m].fwdTo) = 1 /\ task[m].attempt = Len(task[m].outcomes)))
    /\ [][\A m \in Msgs :
             (task[m].pc \in {"log_sent", "log_retry", "log_final"} /\ task'[m] # task[m]) =>
                 /\ task'[m].attempt = task[m].attempt
                 /\ task'[m].outcomes = task[m].outcomes
                 /\ task'[m].fwdTo = task[m].fwdTo
                 /\ task[m].pc = "log_sent" => task'[m].pc = "Delivered"
                 /\ task[m].pc = "log_retry" => task'[m].pc = "sleeping"
                 /\ task[m].pc = "log_final" => task'[m].pc = "PermanentlyFailed"]_vars

\* delivered on the second attempt with the copies of both log lines, the
\* success line included, refused by the log channel
C17_Witness ==
    \E m \in Msgs :
        /\ task[m].pc = "Delivered"
        /\ Kinds(task[m]) = <<"error", "ok">>
        /\ task[m].lost = 2
        /\ Len(task[m].fwdTo) = 1
        /\ task[m].attempt = 2

----------------------------------------------------------------------------
(* The log lines of a config update, under SpecConfig.                     *)

\* an /update that passed the admin gate has returned
UpdateOver == cmd["update"].pc = "idle" /\ cmd["update"].calls > 0 /\ ~Rejected("update")

\* a scheduled refresh is over that found no URL, failed, or applied a document
RefreshOver ==
    sched.pc = "sleeping" /\ sched.cycles > 0
        /\ sched.outcome \in {"no_url", "failed", "applied"}

\* C18: a config update that is over has logged its outcome, whichever the
\* trigger: /update on success, on a missing URL, on a fetch failure and on a
\* parse failure, and the scheduled refresh likewise.
C18_EveryUpdateLogged ==
    /\ UpdateOver => cmd["update"].logs # <<>>
    /\ RefreshOver => sched.logs # <<>>

\* C18, the manual trigger alone
C18_ManualLogged == UpdateOver => cmd["update"].logs # <<>>

\* C18, the scheduled trigger alone
C18_ScheduledLogged == RefreshOver => sched.logs # <<>>

\* /update has answered a failed fetch and returned without a log line
C18_Witness ==
    /\ UpdateOver
    /\ cmd["update"].replies = <<"fetching", "update_failed_fetch">>
    /\ cmd["update"].logs = <<>>

----------------------------------------------------------------------------
(* The refresh interval, under SpecConfig.                                 *)

\* the scheduler starts the sleep that follows a refresh which applied a
\* document
SleepsAfterApplied ==
    sched.pc = "logging" /\ sched.outcome = "applied" /\ sched'.pc = "sleeping"

\* C19: a sleep in progress keeps its duration whatever is applied meanwhile,
\* and the sleep that follows a scheduled refresh which applied a document
\* lasts the auto_update_hours of the configuration now in force.
C19_IntervalLagsOneCycle ==
    [][/\ (sched.pc = "sleeping" /\ sched'.pc = "sleeping" /\ sched'.cycles = sched.cycles)
              => sched'.sleepFor = sched.sleepFor
       /\ (SleepsAfterApplied /\ HasKey(config, "auto_update_hours"))
              => sched'.sleepFor = LastValue(config.items, "auto_update_hours") * 3600]_vars

\* the refresh applied an interval of 1 hour and the next sleep lasts 3 hours
C19_Witness ==
    /\ sched.pc = "sleeping"
    /\ sched.outcome = "applied"
    /\ HasKey(config, "auto_update_hours")
    /\ LastValue(config.items, "auto_update_hours") = 1
    /\ sched.sleepFor = 3 * 3600

----------------------------------------------------------------------------
(* The success line, under SpecRetry.                                      *)

\* C20: the target named in a message's success line is the target that the
\* message was forwarded to, also when /update replaced target_channel while
\* the task was suspended in client.forward_messages.
C20_LogNamesForwardTarget ==
    \A m \in Msgs :
        \A k \in DOMAIN task[m].sent :
            task[m].sent[k][2] = task[m].fwdTo[k]

\* forwarded to 200, logged as sent to 201
C20_Witness ==
    \E m \in Msgs :
        /\ task[m].pc = "Delivered"
        /\ task[m].fwdTo = <<200>>
        /\ task[m].sent = << <<100, 201>> >>

====
